---- MODULE Spec2Model ----
(***************************************************************************)
(* shared::map<int, int, InitialSize> of include/containers/map.hpp: an    *)
(* open-addressing hash table with a byte-folding hash, a triangular probe *)
(* sequence, doubling growth at a 0.75 load factor and move-only           *)
(* ownership of its slot array.                                            *)
(*                                                                         *)
(* Slot i of the C++ array entries[] is entries[i] of the model (a         *)
(* function on 0..capacity-1).  A map object is a record of its three      *)
(* fields plus `null` (entries == nullptr) and `life` (the object's        *)
(* lifetime: not yet constructed, live, destroyed).                        *)
(***************************************************************************)
EXTENDS Integers, Sequences, FiniteSets, TLC

VARIABLES InitialSize, maps, status, address, heap, big_capacity, big_size, text_map, vec,
          wide

vars == <<InitialSize, maps, status, address, heap, big_capacity, big_size, text_map, vec,
          wide>>

(***************************************************************************)
(* Bounds of the model.                                                    *)
(***************************************************************************)
\* keys are the ints 0, 4, .., 4 * MaxKey: they share a home slot in every
\* table of capacity up to 4, and pairwise in a table of capacity 8
MaxKey == 2
\* assigned values are the ints 0..MaxVal (0 is also v(), the default value)
MaxVal == 1
\* InitialSize ranges over 2^0 .. 2^MaxInitExp
MaxInitExp == 3
\* with two maps (SpecMove): keys 0, 4, .., 4 * MaxMoveKey, values 0..MaxMoveVal,
\* InitialSize 2^MoveInitExp
MaxMoveKey == 1
MaxMoveVal == 0
MoveInitExp == 1
\* the count-only table of SpecLoad has capacity 2^3 .. 2^MaxBigExp
MaxBigExp == 26
\* ... and starts at most BigSlack entries below its load-factor ceiling
BigSlack == 3

\* text keys (SpecText) are the one-character strings of the characters
\* FirstChar .. FirstChar + MaxChar, held by key objects at the places
\* 0..MaxPlace; assigned values are 1..MaxTextVal; calls are made while the
\* map counts fewer than MaxTextSize entries
MaxChar == 2
MaxPlace == 1
MaxTextVal == 2
MaxTextSize == 7
\* vector elements are the ints 0..MaxElem, a vector holds at most MaxVecSize
\* elements, reserve is called with 1..MaxReserve and at with 0..MaxIndex
MaxElem == 1
MaxVecSize == 9
MaxReserve == 2
MaxIndex == 2

\* the table whose capacity field is followed at its full width starts with
\* capacity 2^e, e from CapacityBits - 1 - MaxWideDrop to CapacityBits - 1
MaxWideDrop == 3

(***************************************************************************)
(* Program constants.                                                      *)
(***************************************************************************)
\* sizeof(int), the key type of every shared::map<int, int> in the repository
SizeofKey == 4
\* significand precision of the float the load factor is computed in
FloatDigits == 24
\* 'a', the first character the key generator draws from
FirstChar == 97
\* the default InitialSize of the template
DefaultInitialSize == 8
\* the capacity push_back reserves for a vector without storage
FirstReserve == 8
\* uint32_t capacity: the width of the field
CapacityBits == 32

Keys == {4 * j : j \in 0..MaxKey}
Vals == 0..MaxVal
MapIds == {1, 2}
MoveKeys == {4 * j : j \in 0..MaxMoveKey}
MoveVals == 0..MaxMoveVal

RECURSIVE Pow2(_)
Pow2(n) == IF n = 0 THEN 1 ELSE 2 * Pow2(n - 1)

InitialSizes == {Pow2(e) : e \in 0..MaxInitExp}

\* nullptr as the result of find
Null == -1
\* find_slot reads a slot outside the array its map owns (undefined behaviour)
OutOfTable == -2
\* find_slot's loop never reaches a slot that ends it
NoReturn == -3

(***************************************************************************)
(* Entry and the slot array.                                               *)
(***************************************************************************)
\* Entry() : state(0) {}, data value-initialised
EmptyEntry == [state |-> 0, first |-> 0, second |-> 0]

\* new Entry[capacity]()
NewTable(capacity) == [i \in 0..(capacity - 1) |-> EmptyEntry]

\* (mutant) the value is stored where the key belongs
EntryInsert_ValueAsKey(key, value) == [state |-> 1, first |-> value, second |-> value]

\* (mutant) insert tags the slot 2 (deleted)
EntryInsert_Tombstone(key, value) == [state |-> 2, first |-> key, second |-> value]

\* Entry::insert(key, value)
EntryInsert(key, value) == [state |-> 1, first |-> key, second |-> value]

\* a map object that holds no array: before construction, after destruction
\* and (with life = "live") after being moved from
NoTable(life) ==
    [life |-> life, null |-> TRUE, entries |-> NewTable(0), capacity |-> 0, m_size |-> 0]

\* map() noexcept : capacity(InitialSize), m_size(0) { entries = new Entry[capacity](); }
Construct(initial) ==
    [life |-> "live", null |-> FALSE, entries |-> NewTable(initial),
     capacity |-> initial, m_size |-> 0]

(***************************************************************************)
(* hash_fn: folds the sizeof(T) bytes of the key's object representation   *)
(* (little-endian int) with hash = hash * 33 + byte.  No key of the model  *)
(* brings the accumulator near the width of size_t.                        *)
(***************************************************************************)
RECURSIVE Pow256(_)
Pow256(n) == IF n = 0 THEN 1 ELSE 256 * Pow256(n - 1)

KeyByte(value, i) == (value \div Pow256(i)) % 256

RECURSIVE hash_loop(_, _, _)
hash_loop(value, i, hash) ==
    IF i < SizeofKey
    THEN hash_loop(value, i + 1, (hash * 32 + hash) + KeyByte(value, i))
    ELSE hash

hash_fn(value) == hash_loop(value, 0, 0)

\* hash_fn of the keys the calls are made with, computed once
hash_of_key == [value \in Keys \cup MoveKeys |-> hash_fn(value)]

\* size_t hash = hash_fn(key);
digest(key) == IF key \in DOMAIN hash_of_key THEN hash_of_key[key] ELSE hash_fn(key)

\* x & y on non-negative integers
RECURSIVE BitAnd(_, _)
BitAnd(x, y) ==
    IF x = 0 \/ y = 0 THEN 0
    ELSE (x % 2) * (y % 2) + 2 * BitAnd(x \div 2, y \div 2)

\* x & (capacity - 1) with capacity a uint32_t: for capacity 0 the mask is
\* 0xFFFFFFFF, which keeps every x below 2^32 as it is
MaskIndex(x, capacity) ==
    IF capacity = 0 THEN x ELSE BitAnd(x, capacity - 1)

(***************************************************************************)
(* The load-factor test of operator[]:                                     *)
(*     static_cast<float>(m_size + 1) / capacity > max_load_factor         *)
(* The conversion to float rounds to FloatDigits significant bits, to      *)
(* nearest, ties to even.                                                  *)
(***************************************************************************)
RECURSIVE BitLen(_)
BitLen(n) == IF n = 0 THEN 0 ELSE 1 + BitLen(n \div 2)

\* static_cast<float>(n) for an unsigned n, as the integer the float equals
RoundToFloat(n) ==
    IF BitLen(n) <= FloatDigits THEN n
    ELSE LET unit == Pow2(BitLen(n) - FloatDigits)
             q    == n \div unit
             r    == n % unit
         IN  IF 2 * r > unit \/ (2 * r = unit /\ q % 2 = 1)
             THEN (q + 1) * unit
             ELSE q * unit

\* max_load_factor = 0.75f = MaxLoadNum / MaxLoadDen, exact in float.  The
\* quotient by a power-of-two capacity is exact, so it exceeds 0.75f exactly
\* when 4 * float(m_size + 1) > 3 * capacity; a quotient by 0 is +infinity.
MaxLoadNum == 3
MaxLoadDen == 4

\* (mutant) the table is let fill up completely before it grows
LoadExceeded_Full(m_size, capacity) == m_size + 1 > capacity

LoadExceeded(m_size, capacity) ==
    MaxLoadDen * RoundToFloat(m_size + 1) > MaxLoadNum * RoundToFloat(capacity)

(***************************************************************************)
(* find_slot                                                               *)
(***************************************************************************)
\* (mutant) linear probing: the attempt number is not added
ProbeNext_Linear(index, i, capacity) == MaskIndex(index + 1, capacity)

\* index = (index + i) & (capacity - 1)
ProbeNext(index, i, capacity) == MaskIndex(index + i, capacity)

\* The loop `for (size_t i = 0; ; i++)` has no bound.  Its future is a
\* function of (index, i mod capacity), so a run of more than capacity^2
\* iterations that has not returned has repeated such a pair on an unchanged
\* table and never returns.
ProbeLimit(capacity) == capacity * capacity + 1

RECURSIVE probe(_, _, _, _)
probe(mp, key, index, i) ==
    IF mp.null \/ index \notin DOMAIN mp.entries THEN OutOfTable
    ELSE IF mp.entries[index].state # 1 \/ mp.entries[index].first = key THEN index
    ELSE IF i >= ProbeLimit(mp.capacity) THEN NoReturn
    ELSE probe(mp, key, ProbeNext(index, i, mp.capacity), i + 1)

\* (mutant) the key comparison is missing: the first slot that is not Occupied
RECURSIVE probe_free(_, _, _)
probe_free(mp, index, i) ==
    IF mp.null \/ index \notin DOMAIN mp.entries THEN OutOfTable
    ELSE IF mp.entries[index].state # 1 THEN index
    ELSE IF i >= ProbeLimit(mp.capacity) THEN NoReturn
    ELSE probe_free(mp, ProbeNext(index, i, mp.capacity), i + 1)

find_slot_NoKeyTest(mp, key) ==
    probe_free(mp, MaskIndex(digest(key), mp.capacity), 0)

find_slot(mp, key) == probe(mp, key, MaskIndex(digest(key), mp.capacity), 0)

\* the slots find_slot examines, in order, up to and with the one it returns
\* (or the last one it examined before it left the array or went on forever)
RECURSIVE probe_path(_, _, _, _)
probe_path(mp, key, index, i) ==
    IF mp.null \/ index \notin DOMAIN mp.entries THEN <<>>
    ELSE IF mp.entries[index].state # 1 \/ mp.entries[index].first = key THEN <<index>>
    ELSE IF i >= ProbeLimit(mp.capacity) THEN <<index>>
    ELSE <<index>> \o probe_path(mp, key, ProbeNext(index, i, mp.capacity), i + 1)

find_slot_path(mp, key) ==
    probe_path(mp, key, MaskIndex(digest(key), mp.capacity), 0)

(***************************************************************************)
(* operator[] and grow, which re-enters operator[] for every Occupied      *)
(* entry of the old array.  Both return the map after the call with        *)
(*   grows : the number of grow() calls started during the call,           *)
(*   fault : 0, or OutOfTable / NoReturn when a find_slot in the call      *)
(*           left the array or never returned (the map is then the map at  *)
(*           that point),                                                  *)
(* and operator[] also `index`, the slot its returned reference points to. *)
(***************************************************************************)
RECURSIVE index_or_insert(_, _), rehash(_, _, _, _)

\* for (uint32_t i = 0; i < old_cap; i++) if (old_entries[i].state == 1)
\*     operator[](std::move(old_entries[i].data.first)) = std::move(...second);
rehash(r, old_entries, old_cap, i) ==
    IF i >= old_cap \/ r.fault # 0 THEN r
    ELSE IF old_entries[i].state # 1 THEN rehash(r, old_entries, old_cap, i + 1)
    ELSE LET c == index_or_insert(r.map, old_entries[i].first)
             stored == IF c.fault # 0 THEN c.map
                       ELSE [c.map EXCEPT !.entries[c.index].second = old_entries[i].second]
         IN  rehash([map |-> stored, grows |-> r.grows + c.grows, fault |-> c.fault],
                    old_entries, old_cap, i + 1)

\* (mutant) the rehash loop starts at slot 1
grow_SkipsSlot0(mp) ==
    rehash([map   |-> [mp EXCEPT !.capacity = 2 * mp.capacity,
                                 !.entries = NewTable(2 * mp.capacity),
                                 !.null = FALSE,
                                 !.m_size = 0],
            grows |-> 1,
            fault |-> 0],
           mp.entries, mp.capacity, 1)

\* (mutant) the capacity is tripled
grow_Triples(mp) ==
    rehash([map   |-> [mp EXCEPT !.capacity = 3 * mp.capacity,
                                 !.entries = NewTable(3 * mp.capacity),
                                 !.null = FALSE,
                                 !.m_size = 0],
            grows |-> 1,
            fault |-> 0],
           mp.entries, mp.capacity, 0)

\* (mutant) the entries are copied to the slots they had in the old array
grow_CopiesSlots(mp) ==
    [map   |-> [mp EXCEPT !.capacity = 2 * mp.capacity,
                          !.entries = [i \in 0..(2 * mp.capacity - 1) |->
                                          IF i < mp.capacity THEN mp.entries[i]
                                          ELSE EmptyEntry],
                          !.null = FALSE],
     grows |-> 1,
     fault |-> 0]

\* (mutant) m_size is not reset before the entries are re-inserted
grow_KeepsCount(mp) ==
    rehash([map   |-> [mp EXCEPT !.capacity = 2 * mp.capacity,
                                 !.entries = NewTable(2 * mp.capacity),
                                 !.null = FALSE],
            grows |-> 1,
            fault |-> 0],
           mp.entries, mp.capacity, 0)

\* capacity *= 2; entries = new Entry[capacity](); m_size = 0; <rehash>;
\* delete[] old_entries;
grow(mp) ==
    rehash([map   |-> [mp EXCEPT !.capacity = 2 * mp.capacity,
                                 !.entries = NewTable(2 * mp.capacity),
                                 !.null = FALSE,
                                 !.m_size = 0],
            grows |-> 1,
            fault |-> 0],
           mp.entries, mp.capacity, 0)

\* (mutant) a new entry is written without being counted
index_or_insert_NoCount(mp, key) ==
    LET g   == IF LoadExceeded(mp.m_size, mp.capacity)
               THEN grow(mp)
               ELSE [map |-> mp, grows |-> 0, fault |-> 0]
        idx == find_slot(g.map, key)
    IN  IF g.fault # 0
        THEN [map |-> g.map, index |-> g.fault, grows |-> g.grows, fault |-> g.fault]
        ELSE IF idx < 0
        THEN [map |-> g.map, index |-> idx, grows |-> g.grows, fault |-> idx]
        ELSE IF g.map.entries[idx].state # 1
        THEN [map   |-> [g.map EXCEPT !.entries[idx] = EntryInsert(key, 0)],
              index |-> idx, grows |-> g.grows, fault |-> 0]
        ELSE [map |-> g.map, index |-> idx, grows |-> g.grows, fault |-> 0]

index_or_insert(mp, key) ==
    LET g   == IF LoadExceeded(mp.m_size, mp.capacity)
               THEN grow(mp)
               ELSE [map |-> mp, grows |-> 0, fault |-> 0]
        idx == find_slot(g.map, key)
    IN  IF g.fault # 0
        THEN [map |-> g.map, index |-> g.fault, grows |-> g.grows, fault |-> g.fault]
        ELSE IF idx < 0
        THEN [map |-> g.map, index |-> idx, grows |-> g.grows, fault |-> idx]
        ELSE IF g.map.entries[idx].state # 1
        THEN [map   |-> [g.map EXCEPT !.entries[idx] = EntryInsert(key, 0),
                                      !.m_size = g.map.m_size + 1],
              index |-> idx, grows |-> g.grows, fault |-> 0]
        ELSE [map |-> g.map, index |-> idx, grows |-> g.grows, fault |-> 0]

\* (mutant) find compares the key of the slot without testing its tag
find_NoStateTest(mp, key) ==
    LET idx == find_slot(mp, key)
    IN  IF idx < 0 THEN idx
        ELSE IF mp.entries[idx].first = key THEN mp.entries[idx].second
        ELSE Null

\* find: the value pointed to, Null for nullptr, or find_slot's fault
find(mp, key) ==
    LET idx == find_slot(mp, key)
    IN  IF idx < 0 THEN idx
        ELSE IF mp.entries[idx].state = 1 /\ mp.entries[idx].first = key
        THEN mp.entries[idx].second
        ELSE Null

\* (mutant) the new array is allocated with the capacity the map has
clear_KeepsCapacity(mp, initial) ==
    [mp EXCEPT !.null = FALSE, !.entries = NewTable(mp.capacity), !.m_size = 0]

\* clear(): delete[] entries; capacity = InitialSize; entries = new ...; m_size = 0
clear(mp, initial) ==
    [mp EXCEPT !.null = FALSE, !.capacity = initial,
               !.entries = NewTable(initial), !.m_size = 0]

\* size()
size(mp) == mp.m_size

\* bool empty() const noexcept { return m_size == 0; }
empty(mp) == mp.m_size = 0

(***************************************************************************)
(* map::iterator.  An iterator over an unchanged map is its `index`; its    *)
(* entries and capacity are those of the map.                              *)
(***************************************************************************)
\* (mutant) advance() does not skip
advance_NoSkip(mp, index) == index

\* while (index < capacity && entries[index].state != 1) ++index;
\* OutOfTable when the loop reads a slot outside the array
RECURSIVE advance(_, _)
advance(mp, index) ==
    IF index < 0 \/ index >= mp.capacity THEN index
    ELSE IF mp.null \/ index \notin DOMAIN mp.entries THEN OutOfTable
    ELSE IF mp.entries[index].state # 1 THEN advance(mp, index + 1)
    ELSE index

\* begin(): iterator(entries, capacity, 0)
begin(mp) == advance(mp, 0)

\* end(): iterator(entries, capacity, capacity)
end(mp) == advance(mp, mp.capacity)

\* operator++: ++index; advance();
increment(mp, index) == advance(mp, index + 1)

\* for (auto it = m.begin(); it != m.end(); ++it) use(*it);
\* yield: the slot index operator* reads and the pair it returns, in order;
\* fault: OutOfTable when advance() or operator* reads outside the array.
\* operator!= compares the two index fields and nothing else.
RECURSIVE iterate(_, _, _)
iterate(mp, it, yield) ==
    IF it = OutOfTable \/ end(mp) = OutOfTable THEN [yield |-> yield, fault |-> OutOfTable]
    ELSE IF it = end(mp) THEN [yield |-> yield, fault |-> 0]
    ELSE IF mp.null \/ it \notin DOMAIN mp.entries THEN [yield |-> yield, fault |-> OutOfTable]
    ELSE iterate(mp, increment(mp, it),
                 Append(yield, [slot   |-> it,
                                state  |-> mp.entries[it].state,
                                first  |-> mp.entries[it].first,
                                second |-> mp.entries[it].second]))

(***************************************************************************)
(* The free store.  `heap` is the set of addresses of the arrays that have *)
(* been allocated by new[] and not released by delete[]; address[m] is the *)
(* value of the pointer field `entries` of map m (0 for nullptr, and for   *)
(* an object outside its lifetime).  The operators below work on a record  *)
(* of the two with `fault`, which is TRUE once delete[] has been applied   *)
(* to an address that is not in the heap or a slot has been read or        *)
(* written through such an address.                                        *)
(***************************************************************************)
Memory == [address |-> address, heap |-> heap, fault |-> FALSE]

\* the address new[] returns: one that is not in use
allocate(h) ==
    CHOOSE p \in 1..(Cardinality(h) + 1) :
        p \notin h /\ \A q \in 1..(p - 1) : q \in h

\* entries = new Entry[capacity]();   in map m
new_entries(mem, m) ==
    LET p == allocate(mem.heap)
    IN  [mem EXCEPT !.address[m] = p, !.heap = @ \cup {p}]

\* (mutant) delete[] is missing
delete_entries_Never(mem, p) == mem

\* delete[] p;   (no effect on nullptr)
delete_entries(mem, p) ==
    IF p = 0 THEN mem
    ELSE IF p \notin mem.heap THEN [mem EXCEPT !.fault = TRUE]
    ELSE [mem EXCEPT !.heap = @ \ {p}]

\* a slot is read or written through p; reading through nullptr is
\* find_slot's OutOfTable
access_entries(mem, p) ==
    IF p # 0 /\ p \notin mem.heap THEN [mem EXCEPT !.fault = TRUE] ELSE mem

\* n calls of grow() on map m, each inside the rehash loop of the one before:
\* old_entries = entries; entries = new ...; <rehash>; delete[] old_entries;
RECURSIVE grow_entries(_, _, _)
grow_entries(mem, m, n) ==
    IF n = 0 THEN mem
    ELSE delete_entries(grow_entries(new_entries(mem, m), m, n - 1), mem.address[m])

\* Which address new[] returns is not the program's choice: the addresses in
\* use are renamed 1, 2, .. in the order of the maps that hold them, then
\* those no map holds.
Canonical(mem) ==
    LET used      == (mem.heap \cup {mem.address[m] : m \in MapIds}) \ {0}
        holder(j) == IF \E m \in MapIds : mem.address[m] = j
                     THEN CHOOSE m \in MapIds :
                            /\ mem.address[m] = j
                            /\ \A n \in MapIds : mem.address[n] = j => m <= n
                     ELSE Cardinality(MapIds) + 1
        before(i, j) == holder(i) < holder(j) \/ (holder(i) = holder(j) /\ i < j)
        name(j)   == 1 + Cardinality({i \in used : before(i, j)})
    IN  [address |-> [m \in MapIds |->
                        IF mem.address[m] = 0 THEN 0 ELSE name(mem.address[m])],
         heap    |-> {name(j) : j \in mem.heap},
         fault   |-> mem.fault]

\* the free store after the step (the names stay when nothing has changed)
Store(mem) ==
    IF mem.address = address /\ mem.heap = heap
    THEN address' = address /\ heap' = heap
    ELSE LET c == Canonical(mem)
         IN  address' = c.address /\ heap' = c.heap

(***************************************************************************)
(* Calls.  What a call returns is the value of its operator (find,         *)
(* index_or_insert) in the state it is made in.  `status` is "ok" while    *)
(* the program runs defined code, "ub" once a call has read or written     *)
(* outside the array its map owns, "hung" once a call is in a loop it      *)
(* never leaves, "freed" once a call has released an array twice or used    *)
(* an array after its release.                                             *)
(***************************************************************************)
StatusOf(fault) ==
    IF fault = 0 THEN "ok" ELSE IF fault = OutOfTable THEN "ub" ELSE "hung"

\* What the slot tag read outside the array can make operator[] do: count an
\* insertion or not.
Garbage(fault) == IF fault = OutOfTable THEN 0..1 ELSE {0}

Live(m) == status = "ok" /\ maps[m].life = "live"

\* the free store during m[key]: grow() as often as the call grows, or else
\* find_slot's read of entries[index]
index_entries(m, grows) ==
    IF grows = 0 THEN access_entries(Memory, address[m])
    ELSE grow_entries(Memory, m, grows)

\* m[key];
IndexOrInsert(m, key) ==
    /\ Live(m)
    /\ LET c == index_or_insert(maps[m], key)
       IN  \E counted \in Garbage(c.fault) :
             /\ maps' = [maps EXCEPT ![m] =
                            [c.map EXCEPT !.m_size = c.map.m_size + counted]]
             /\ LET mem == index_entries(m, c.grows)
                IN  /\ status' = IF mem.fault THEN "freed" ELSE StatusOf(c.fault)
                    /\ Store(mem)
    /\ UNCHANGED <<InitialSize, wide, big_capacity, big_size, text_map, vec>>

\* m[key] = val;
IndexAssign(m, key, val) ==
    /\ Live(m)
    /\ LET c == index_or_insert(maps[m], key)
       IN  \E counted \in Garbage(c.fault) :
             /\ maps' = [maps EXCEPT ![m] =
                            IF c.fault = 0
                            THEN [c.map EXCEPT !.entries[c.index].second = val]
                            ELSE [c.map EXCEPT !.m_size = c.map.m_size + counted]]
             /\ LET mem == index_entries(m, c.grows)
                IN  /\ status' = IF mem.fault THEN "freed" ELSE StatusOf(c.fault)
                    /\ Store(mem)
    /\ UNCHANGED <<InitialSize, wide, big_capacity, big_size, text_map, vec>>

\* m.find(key);
Find(m, key) ==
    /\ Live(m)
    /\ status' = IF access_entries(Memory, address[m]).fault THEN "freed"
                  ELSE StatusOf(IF find(maps[m], key) < Null THEN find(maps[m], key) ELSE 0)
    /\ UNCHANGED <<InitialSize, wide, maps, address, heap, big_capacity, big_size, text_map, vec>>

\* m.clear();
Clear(m) ==
    /\ Live(m)
    /\ maps' = [maps EXCEPT ![m] = clear(maps[m], InitialSize)]
    /\ LET mem == new_entries(delete_entries(Memory, address[m]), m)
       IN  /\ status' = IF mem.fault THEN "freed" ELSE status
           /\ Store(mem)
    /\ UNCHANGED <<InitialSize, wide, big_capacity, big_size, text_map, vec>>

\* shared::map<int, int, InitialSize> m;
DefaultConstruct(m) ==
    /\ status = "ok"
    /\ maps[m].life = "unborn"
    /\ maps' = [maps EXCEPT ![m] = Construct(InitialSize)]
    /\ Store(new_entries(Memory, m))
    /\ UNCHANGED <<InitialSize, wide, status, big_capacity, big_size, text_map, vec>>

\* (mutant) m_size is not taken over
move_from_NoSize(src) == [src EXCEPT !.life = "live", !.m_size = 0]

\* map(map&& other): takes other's three fields, leaves other nullptr, 0, 0
move_from(src) == [src EXCEPT !.life = "live"]

moved_out(src) == NoTable("live")

\* shared::map<int, int, InitialSize> dst(std::move(src));
MoveConstruct(dst, src) ==
    /\ status = "ok"
    /\ dst # src
    /\ maps[dst].life = "unborn"
    /\ maps[src].life = "live"
    /\ maps' = [maps EXCEPT ![dst] = move_from(maps[src]), ![src] = moved_out(maps[src])]
    /\ Store([Memory EXCEPT !.address[dst] = address[src], !.address[src] = 0])
    /\ UNCHANGED <<InitialSize, wide, status, big_capacity, big_size, text_map, vec>>

\* dst = std::move(src);   (if (this != &other) { delete[] entries; ... })
MoveAssign(dst, src) ==
    /\ Live(dst)
    /\ maps[src].life = "live"
    /\ maps' = IF dst = src THEN maps
               ELSE [maps EXCEPT ![dst] = move_from(maps[src]),
                                 ![src] = moved_out(maps[src])]
    /\ LET mem == IF dst = src THEN Memory
                  ELSE [delete_entries(Memory, address[dst])
                            EXCEPT !.address[dst] = address[src], !.address[src] = 0]
       IN  /\ status' = IF mem.fault THEN "freed" ELSE status
           /\ Store(mem)
    /\ UNCHANGED <<InitialSize, wide, big_capacity, big_size, text_map, vec>>

\* ~map(): delete[] entries
Destroy(m) ==
    /\ Live(m)
    /\ maps' = [maps EXCEPT ![m] = NoTable("dead")]
    /\ LET mem == [delete_entries(Memory, address[m]) EXCEPT !.address[m] = 0]
       IN  /\ status' = IF mem.fault THEN "freed" ELSE status
           /\ Store(mem)
    /\ UNCHANGED <<InitialSize, wide, big_capacity, big_size, text_map, vec>>

\* for (auto it = m.begin(); it != m.end(); ++it) use(*it);
Iterate(m) ==
    /\ Live(m)
    /\ status' = IF maps[m].capacity > 0 /\ access_entries(Memory, address[m]).fault
                  THEN "freed"
                  ELSE StatusOf(iterate(maps[m], begin(maps[m]), <<>>).fault)
    /\ UNCHANGED <<InitialSize, wide, maps, address, heap, big_capacity, big_size, text_map, vec>>

(***************************************************************************)
(* A table too large to enumerate slot by slot, followed through the two   *)
(* fields the load-factor test reads.  An operator[] call with a key that  *)
(* is not stored grows when the test says so (capacity doubles, and the    *)
(* rehash restores m_size) and then counts the new entry.                  *)
(***************************************************************************)
BigCeiling(capacity) == (MaxLoadNum * capacity) \div MaxLoadDen

BigInsert ==
    /\ status = "ok"
    /\ big_capacity > 0
    /\ big_size + BigSlack >= BigCeiling(big_capacity)
    /\ big_capacity' = IF LoadExceeded(big_size, big_capacity)
                       THEN 2 * big_capacity ELSE big_capacity
    /\ big_size' = big_size + 1
    /\ UNCHANGED <<InitialSize, wide, maps, status, address, heap, text_map, vec>>

(***************************************************************************)
(* The capacity field at its full width.  `capacity` is a uint32_t; a       *)
(* value of that type is a record of its two 16-bit halves, and             *)
(* `capacity *= 2` is the multiplication modulo 2^CapacityBits.  The table  *)
(* is followed through its two count fields, with keys that are not stored: *)
(* wide = [capacity, m_size].  m_size stays below 2^(CapacityBits - 1) in   *)
(* every state of the model, so m_size + 1 and m_size++ do not wrap.        *)
(***************************************************************************)
Half == Pow2(CapacityBits \div 2)

Word32(n) == [hi |-> n \div Half, lo |-> n % Half]

\* uint32_t x; x *= 2;
Mul2_32(w) ==
    LET lo == 2 * w.lo
        hi == 2 * w.hi + lo \div Half
    IN  [hi |-> hi % Half, lo |-> lo % Half]

IsZero32(w) == w.hi = 0 /\ w.lo = 0

Less32(a, b) == a.hi < b.hi \/ (a.hi = b.hi /\ a.lo < b.lo)

\* w / MaxLoadDen as an integer, for w a multiple of MaxLoadDen
Quarter32(w) == w.hi * (Half \div MaxLoadDen) + w.lo \div MaxLoadDen

NoWide == [capacity |-> Word32(0), m_size |-> 0]

\* the largest m_size with m_size / capacity <= 0.75
WideCeiling(capacity) == MaxLoadNum * Quarter32(capacity)

\* static_cast<float>(m_size + 1) / capacity > max_load_factor, for a
\* capacity that is 0 or a power of two >= MaxLoadDen: the conversion of
\* capacity and the quotient are exact, and a quotient by 0 is +infinity
LoadExceeded32(m_size, capacity) ==
    IF IsZero32(capacity) THEN TRUE
    ELSE RoundToFloat(m_size + 1) > MaxLoadNum * Quarter32(capacity)

\* operator[] with a key that is not stored, grow, and the loop of grow,
\* which re-enters operator[] `left` times more.  The load-factor test is
\* monotonic in m_size, so if it is false in the last of the remaining calls
\* it is false in all of them and each just counts its entry.  find_slot in
\* an array of length 0 reads outside it.
RECURSIVE wide_index_or_insert(_), wide_rehash(_, _)

wide_rehash(r, left) ==
    IF left = 0 \/ r.fault # 0 THEN r
    ELSE IF ~LoadExceeded32(r.m_size + left - 1, r.capacity)
    THEN [r EXCEPT !.m_size = r.m_size + left]
    ELSE LET c == wide_index_or_insert([capacity |-> r.capacity, m_size |-> r.m_size])
         IN  wide_rehash([capacity |-> c.capacity, m_size |-> c.m_size,
                          grows |-> r.grows + c.grows, fault |-> c.fault],
                         left - 1)

\* capacity *= 2; entries = new Entry[capacity](); m_size = 0; <rehash>;
\* delete[] old_entries;  (count fields only)
wide_grow(w) ==
    wide_rehash([capacity |-> Mul2_32(w.capacity), m_size |-> 0, grows |-> 1, fault |-> 0],
                w.m_size)

wide_index_or_insert(w) ==
    LET g == IF LoadExceeded32(w.m_size, w.capacity)
             THEN wide_grow(w)
             ELSE [capacity |-> w.capacity, m_size |-> w.m_size, grows |-> 0, fault |-> 0]
    IN  IF g.fault # 0 THEN g
        ELSE IF IsZero32(g.capacity) THEN [g EXCEPT !.fault = OutOfTable]
        ELSE [g EXCEPT !.m_size = g.m_size + 1]

\* m[key]; with a key that is not stored, in a table at its load-factor ceiling
WideInsert ==
    /\ status = "ok"
    /\ ~IsZero32(wide.capacity)
    /\ wide.m_size >= WideCeiling(wide.capacity)
    /\ LET c == wide_index_or_insert(wide)
       IN  \E counted \in Garbage(c.fault) :
             /\ wide' = [capacity |-> c.capacity, m_size |-> c.m_size + counted]
             /\ status' = StatusOf(c.fault)
    /\ UNCHANGED <<InitialSize, maps, address, heap, big_capacity, big_size, text_map, vec>>

(***************************************************************************)
(* shared::map<std::string, int>.  A key is an object: what it holds       *)
(* (text) and where it is (place).  operator== compares the texts.  The    *)
(* object representation hash_fn reads is that of a small-buffer string,   *)
(* scaled to bytes: a pointer to the object's own buffer (its place), the  *)
(* length, and the characters.  The key an entry stores is a copy that     *)
(* lives in the slot.                                                      *)
(***************************************************************************)
Texts == {<<FirstChar + c>> : c \in 0..MaxChar}
Places == 0..MaxPlace
TextVals == 1..MaxTextVal

\* a std::string holding `text`, at `place`
KeyObject(text, place) == [text |-> text, place |-> place]

CallerKeys == {KeyObject(text, place) : text \in Texts, place \in Places}

\* the place of the key object in slot `index`
SlotPlace(index) == MaxPlace + 1 + index

\* reinterpret_cast<const unsigned char*>(&value)[0 .. sizeof(T) - 1]
ObjectBytes(key) == <<key.place, Len(key.text)>> \o key.text

RECURSIVE text_hash_loop(_, _, _)
text_hash_loop(data, i, hash) ==
    IF i <= Len(data)
    THEN text_hash_loop(data, i + 1, (hash * 32 + hash) + data[i])
    ELSE hash

\* hash_fn<std::string>
text_hash_fn(key) == text_hash_loop(ObjectBytes(key), 1, 0)

\* std::string operator==
KeyEqual(a, b) == a.text = b.text

TextEmptyEntry == [state |-> 0, first |-> KeyObject(<<>>, 0), second |-> 0]

TextNewTable(capacity) == [i \in 0..(capacity - 1) |-> TextEmptyEntry]

\* no shared::map<std::string, int> exists
NoTextMap == [entries |-> TextNewTable(0), capacity |-> 0, m_size |-> 0]

TextConstruct(initial) ==
    [entries |-> TextNewTable(initial), capacity |-> initial, m_size |-> 0]

RECURSIVE text_probe(_, _, _, _)
text_probe(mp, key, index, i) ==
    IF index \notin DOMAIN mp.entries THEN OutOfTable
    ELSE IF mp.entries[index].state # 1 \/ KeyEqual(mp.entries[index].first, key)
    THEN index
    ELSE IF i >= ProbeLimit(mp.capacity) THEN NoReturn
    ELSE text_probe(mp, key, ProbeNext(index, i, mp.capacity), i + 1)

text_find_slot(mp, key) ==
    text_probe(mp, key, MaskIndex(text_hash_fn(key), mp.capacity), 0)

RECURSIVE text_index_or_insert(_, _), text_rehash(_, _, _, _)

text_rehash(r, old_entries, old_cap, i) ==
    IF i >= old_cap \/ r.fault # 0 THEN r
    ELSE IF old_entries[i].state # 1 THEN text_rehash(r, old_entries, old_cap, i + 1)
    ELSE LET c == text_index_or_insert(r.map, old_entries[i].first)
             stored == IF c.fault # 0 THEN c.map
                       ELSE [c.map EXCEPT !.entries[c.index].second = old_entries[i].second]
         IN  text_rehash([map |-> stored, grows |-> r.grows + c.grows, fault |-> c.fault],
                         old_entries, old_cap, i + 1)

text_grow(mp) ==
    text_rehash([map   |-> [mp EXCEPT !.capacity = 2 * mp.capacity,
                                      !.entries = TextNewTable(2 * mp.capacity),
                                      !.m_size = 0],
                 grows |-> 1,
                 fault |-> 0],
                mp.entries, mp.capacity, 0)

text_index_or_insert(mp, key) ==
    LET g   == IF LoadExceeded(mp.m_size, mp.capacity)
               THEN text_grow(mp)
               ELSE [map |-> mp, grows |-> 0, fault |-> 0]
        idx == text_find_slot(g.map, key)
    IN  IF g.fault # 0
        THEN [map |-> g.map, index |-> g.fault, grows |-> g.grows, fault |-> g.fault]
        ELSE IF idx < 0
        THEN [map |-> g.map, index |-> idx, grows |-> g.grows, fault |-> idx]
        ELSE IF g.map.entries[idx].state # 1
        THEN [map   |-> [g.map EXCEPT
                            !.entries[idx] =
                                EntryInsert(KeyObject(key.text, SlotPlace(idx)), 0),
                            !.m_size = g.map.m_size + 1],
              index |-> idx, grows |-> g.grows, fault |-> 0]
        ELSE [map |-> g.map, index |-> idx, grows |-> g.grows, fault |-> 0]

text_find(mp, key) ==
    LET idx == text_find_slot(mp, key)
    IN  IF idx < 0 THEN idx
        ELSE IF mp.entries[idx].state = 1 /\ KeyEqual(mp.entries[idx].first, key)
        THEN mp.entries[idx].second
        ELSE Null

\* m[key] = val;
TextIndexAssign(key, val) ==
    /\ status = "ok"
    /\ text_map.capacity > 0
    /\ text_map.m_size < MaxTextSize
    /\ LET c == text_index_or_insert(text_map, key)
       IN  /\ text_map' = IF c.fault = 0
                          THEN [c.map EXCEPT !.entries[c.index].second = val]
                          ELSE c.map
           /\ status' = StatusOf(c.fault)
    /\ UNCHANGED <<InitialSize, wide, maps, address, heap, big_capacity, big_size, vec>>

\* m.find(key);
TextFind(key) ==
    /\ status = "ok"
    /\ text_map.capacity > 0
    /\ status' = StatusOf(IF text_find(text_map, key) < Null
                          THEN text_find(text_map, key) ELSE 0)
    /\ UNCHANGED <<InitialSize, wide, maps, address, heap, big_capacity, big_size, text_map, vec>>

(***************************************************************************)
(* shared::vector<int> of include/containers/vector.hpp.  A vector is a    *)
(* record of its fields: `null` is _elements == nullptr, and elements[i]   *)
(* for i < _space is what the storage holds at index i: the element, or    *)
(* Raw where no element has been constructed.                              *)
(***************************************************************************)
Elems == 0..MaxElem
Indices == 0..MaxIndex

\* storage in which no object has been constructed
Raw == -4

\* vector(): _size(0), _elements(nullptr), _space(0)
vector == [size |-> 0, null |-> TRUE, elements |-> <<>>, space |-> 0]

\* storage index i of the vector as a position of the model's sequence
Slot(i) == i + 1

vector_size(v) == v.size

vector_capacity(v) == v.space

\* reserve(new_alloc): new storage, the elements moved over, the old storage
\* released
vector_reserve(v, new_alloc) ==
    IF new_alloc <= v.space THEN v
    ELSE [v EXCEPT !.null = FALSE, !.space = new_alloc,
                   !.elements = [n \in 1..new_alloc |->
                                    IF n <= v.size THEN v.elements[n] ELSE Raw]]

\* push_back releases the storage the vector has on entry
vector_reallocates(v) == v.space = 0 \/ v.size = v.space

\* push_back(val), val read after the reserve
vector_push_back(v, val) ==
    LET r == IF v.space = 0 THEN vector_reserve(v, FirstReserve)
             ELSE IF v.size = v.space THEN vector_reserve(v, 2 * v.space)
             ELSE v
    IN  [r EXCEPT !.elements[Slot(r.size)] = val, !.size = r.size + 1]

\* at(i): the index of the element whose reference is returned, and
\* OutOfTable when that is not an element of the vector
vector_at(v, i) ==
    LET index == IF i >= v.size THEN 0 ELSE i
    IN  [index |-> index,
         fault |-> IF v.null \/ index >= v.size THEN OutOfTable ELSE 0]

\* clean_up(): elements destroyed, storage released
vector_clean_up(v) == vector

\* v.push_back(x);   x an object outside the vector
PushBack(x) ==
    /\ status = "ok"
    /\ vec.size < MaxVecSize
    /\ vec' = vector_push_back(vec, x)
    /\ UNCHANGED <<InitialSize, wide, maps, status, address, heap, big_capacity, big_size,
                   text_map>>

\* v.push_back(v[j]);   the argument is a reference to an element.  When the
\* call reallocates, the reference is to released storage by the time it is
\* read: the value read is any value.
PushBackElement(j) ==
    /\ status = "ok"
    /\ vec.size < MaxVecSize
    /\ j < vec.size
    /\ \E read \in IF vector_reallocates(vec) THEN Elems ELSE {vec.elements[Slot(j)]} :
        vec' = vector_push_back(vec, read)
    /\ status' = IF vector_reallocates(vec) THEN "freed" ELSE "ok"
    /\ UNCHANGED <<InitialSize, wide, maps, address, heap, big_capacity, big_size, text_map>>

\* v.reserve(n);
Reserve(n) ==
    /\ status = "ok"
    /\ vec' = vector_reserve(vec, n)
    /\ UNCHANGED <<InitialSize, wide, maps, status, address, heap, big_capacity, big_size,
                   text_map>>

\* v.at(i);
At(i) ==
    /\ status = "ok"
    /\ status' = StatusOf(vector_at(vec, i).fault)
    /\ UNCHANGED <<InitialSize, wide, maps, address, heap, big_capacity, big_size, text_map,
                   vec>>

\* v.clear();
VectorClear ==
    /\ status = "ok"
    /\ vec' = vector_clean_up(vec)
    /\ UNCHANGED <<InitialSize, wide, maps, status, address, heap, big_capacity, big_size,
                   text_map>>

(***************************************************************************)
(* Specifications.                                                         *)
(***************************************************************************)
\* one map, from its construction on
Init ==
    /\ InitialSize \in InitialSizes
    /\ maps = [m \in MapIds |-> IF m = 1 THEN Construct(InitialSize) ELSE NoTable("unborn")]
    /\ status = "ok"
    /\ address = [m \in MapIds |-> IF m = 1 THEN 1 ELSE 0]
    /\ heap = {1}
    /\ big_capacity = 0
    /\ big_size = 0
    /\ text_map = NoTextMap
    /\ vec = vector
    /\ wide = NoWide

Next ==
    \/ \E key \in Keys : IndexOrInsert(1, key)
    \/ \E key \in Keys, val \in Vals : IndexAssign(1, key, val)
    \/ \E key \in Keys : Find(1, key)
    \/ Clear(1)
    \/ Iterate(1)

Spec == Init /\ [][Next]_vars

\* two maps, with construction, moves and destruction
InitMove ==
    /\ InitialSize = Pow2(MoveInitExp)
    /\ maps = [m \in MapIds |-> IF m = 1 THEN Construct(InitialSize) ELSE NoTable("unborn")]
    /\ status = "ok"
    /\ address = [m \in MapIds |-> IF m = 1 THEN 1 ELSE 0]
    /\ heap = {1}
    /\ big_capacity = 0
    /\ big_size = 0
    /\ text_map = NoTextMap
    /\ vec = vector
    /\ wide = NoWide

NextMove ==
    \/ \E m \in MapIds, key \in MoveKeys : IndexOrInsert(m, key)
    \/ \E m \in MapIds, key \in MoveKeys, val \in MoveVals : IndexAssign(m, key, val)
    \/ \E m \in MapIds, key \in MoveKeys : Find(m, key)
    \/ \E m \in MapIds : Clear(m)
    \/ \E m \in MapIds : DefaultConstruct(m)
    \/ \E dst \in MapIds, src \in MapIds : MoveConstruct(dst, src)
    \/ \E dst \in MapIds, src \in MapIds : MoveAssign(dst, src)
    \/ \E m \in MapIds : Destroy(m)
    \/ \E m \in MapIds : Iterate(m)

SpecMove == InitMove /\ [][NextMove]_vars

\* the count fields of a large table near its load-factor ceiling
InitLoad ==
    /\ InitialSize = 8
    /\ maps = [m \in MapIds |-> NoTable("unborn")]
    /\ status = "ok"
    /\ address = [m \in MapIds |-> 0]
    /\ heap = {}
    /\ \E e \in 3..MaxBigExp, d \in 0..BigSlack :
        /\ big_capacity = Pow2(e)
        /\ big_size = BigCeiling(Pow2(e)) - d
    /\ text_map = NoTextMap
    /\ vec = vector
    /\ wide = NoWide

NextLoad == BigInsert

SpecLoad == InitLoad /\ [][NextLoad]_vars

\* a table of capacity 2^e, up to the largest power of two the capacity
\* field holds, filled to its load-factor ceiling
InitWide ==
    /\ InitialSize = DefaultInitialSize
    /\ maps = [m \in MapIds |-> NoTable("unborn")]
    /\ status = "ok"
    /\ address = [m \in MapIds |-> 0]
    /\ heap = {}
    /\ big_capacity = 0
    /\ big_size = 0
    /\ text_map = NoTextMap
    /\ vec = vector
    /\ \E e \in (CapacityBits - 1 - MaxWideDrop)..(CapacityBits - 1) :
        LET capacity == [hi |-> Pow2(e - CapacityBits \div 2), lo |-> 0]
        IN  wide = [capacity |-> capacity, m_size |-> WideCeiling(capacity)]

NextWide == WideInsert

SpecWide == InitWide /\ [][NextWide]_vars

\* one shared::map<std::string, int>, from its construction on
InitText ==
    /\ InitialSize = DefaultInitialSize
    /\ maps = [m \in MapIds |-> NoTable("unborn")]
    /\ status = "ok"
    /\ address = [m \in MapIds |-> 0]
    /\ heap = {}
    /\ big_capacity = 0
    /\ big_size = 0
    /\ text_map = TextConstruct(InitialSize)
    /\ vec = vector
    /\ wide = NoWide

NextText ==
    \/ \E key \in CallerKeys, val \in TextVals : TextIndexAssign(key, val)
    \/ \E key \in CallerKeys : TextFind(key)

SpecText == InitText /\ [][NextText]_vars

\* one shared::vector<int>, from its construction on
InitVector ==
    /\ InitialSize = DefaultInitialSize
    /\ maps = [m \in MapIds |-> NoTable("unborn")]
    /\ status = "ok"
    /\ address = [m \in MapIds |-> 0]
    /\ heap = {}
    /\ big_capacity = 0
    /\ big_size = 0
    /\ text_map = NoTextMap
    /\ vec = vector
    /\ wide = NoWide

NextVector ==
    \/ \E x \in Elems : PushBack(x)
    \/ \E j \in Indices : PushBackElement(j)
    \/ \E n \in 1..MaxReserve : Reserve(n)
    \/ \E i \in Indices : At(i)
    \/ VectorClear

SpecVector == InitVector /\ [][NextVector]_vars

(***************************************************************************)
(* Properties.                                                             *)
(***************************************************************************)
Occupied(mp) == {i \in DOMAIN mp.entries : mp.entries[i].state = 1}

\* the (key, value) pairs a map stores
Stored(mp) == {<<mp.entries[i].first, mp.entries[i].second>> : i \in Occupied(mp)}

\* the keys find reports present
Found(mp, keys) == {k \in keys : find(mp, k) >= 0}

\* an entry sits away from its key's home slot: a probe sequence placed it
Displaced(mp) ==
    \E i \in Occupied(mp) : MaskIndex(hash_fn(mp.entries[i].first), mp.capacity) # i

\* the first n slot indices find_slot examines from `index` at attempt i, when
\* no examined slot ends the loop
RECURSIVE Examined(_, _, _, _)
Examined(index, i, capacity, n) ==
    IF n = 0 THEN <<>>
    ELSE <<index>> \o Examined(ProbeNext(index, i, capacity), i + 1, capacity, n - 1)

Range(seq) == {seq[i] : i \in DOMAIN seq}

\* C1: a fresh map finds no key and has size 0; every m[key] = val makes
\* find(key) return val and leaves what find returns for every other key as
\* it was; and size() is the number of distinct keys assigned so far.
C1_AssignAgreesWithReference ==
    /\ size(Construct(InitialSize)) = 0 /\ Found(Construct(InitialSize), Keys) = {}
    /\ [](status = "ok" => size(maps[1]) = Cardinality(Found(maps[1], Keys)))
    /\ [][\A key \in Keys, val \in Vals :
            IndexAssign(1, key, val) =>
                \A j \in Keys :
                    find(maps'[1], j) = IF j = key THEN val ELSE find(maps[1], j)]_vars

\* C1 witness: every key of the model has been assigned, one of them a
\* non-default value, in a table that has grown and resolved a collision
C1_Witness ==
    /\ Found(maps[1], Keys) = Keys
    /\ \E key \in Keys : find(maps[1], key) > 0
    /\ maps[1].capacity > InitialSize
    /\ Displaced(maps[1])

\* C2: in every operator[] call that grows the table, grow() returns a table
\* in which find gives, for every key, what it gave in the old table (same
\* value if present, absent if absent), and after the whole call this still
\* holds for every key other than the call's own.
C2_GrowthPreservesEntries ==
    [][LoadExceeded(maps[1].m_size, maps[1].capacity) =>
        LET g         == grow(maps[1])
            preserved == /\ g.fault = 0
                         /\ \A j \in Keys : find(g.map, j) = find(maps[1], j)
        IN  \A key \in Keys :
                (IndexOrInsert(1, key) \/ \E val \in Vals : IndexAssign(1, key, val)) =>
                    /\ preserved
                    /\ \A j \in Keys \ {key} : find(maps'[1], j) = find(maps[1], j)]_vars

\* C2 witness: a table that has grown twice and holds displaced entries
C2_Witness ==
    /\ maps[1].capacity >= 4 * InitialSize
    /\ maps[1].m_size >= 2
    /\ Displaced(maps[1])

\* C3: after every completed operator[] call, 4 * m_size <= 3 * capacity
\* (the load factor is at most 0.75), in a table of any size.
C3_LoadFactorCeiling ==
    /\ \A m \in MapIds :
        (status = "ok" /\ maps[m].life = "live") =>
            MaxLoadDen * maps[m].m_size <= MaxLoadNum * maps[m].capacity
    /\ MaxLoadDen * big_size <= MaxLoadNum * big_capacity

\* C4: no two Occupied entries of a table hold equal keys.
C4_KeysUnique ==
    \A m \in MapIds :
        \A i \in Occupied(maps[m]), j \in Occupied(maps[m]) :
            maps[m].entries[i].first = maps[m].entries[j].first => i = j

\* C4 witness: a table at its load-factor ceiling, which has grown, holds
\* several keys with the same home slot
C4_Witness ==
    /\ MaxLoadDen * maps[1].m_size = MaxLoadNum * maps[1].capacity
    /\ maps[1].capacity > InitialSize
    /\ \E i \in Occupied(maps[1]), j \in Occupied(maps[1]) :
        /\ i # j
        /\ MaskIndex(hash_fn(maps[1].entries[i].first), maps[1].capacity)
            = MaskIndex(hash_fn(maps[1].entries[j].first), maps[1].capacity)

\* C5 (as claimed): from every home slot, the first `capacity` slot indices
\* find_slot examines are pairwise different.
C5_EachSlotOnceBeforeRepeat ==
    \A m \in MapIds : \A home \in DOMAIN maps[m].entries :
        Cardinality(Range(Examined(home, 0, maps[m].capacity, maps[m].capacity)))
            = maps[m].capacity

\* C5 (amended): find_slot examines the home slot twice (attempt 0 adds 0),
\* and the `capacity` examinations that start with the second one visit
\* every slot index exactly once.
C5_CoverageAfterRepeatedHome ==
    \A m \in MapIds : \A home \in DOMAIN maps[m].entries :
        LET seq == Examined(home, 0, maps[m].capacity, maps[m].capacity + 1)
        IN  /\ seq[1] = home
            /\ seq[2] = home
            /\ {seq[n] : n \in 2..(maps[m].capacity + 1)} = DOMAIN maps[m].entries

\* C5 witness: a table that has grown to capacity 2^MaxInitExp and in which
\* an insertion went past the second examination of the home slot
C5_Witness ==
    /\ maps[1].capacity = Pow2(MaxInitExp)
    /\ maps[1].capacity > InitialSize
    /\ Displaced(maps[1])

\* C6: in every state reached by construction, operator[], growth and clear,
\* the table has a slot that is not Occupied and find_slot returns a slot of
\* the table for every key, stored or not, whatever its home slot.
C6_ProbeTerminates ==
    /\ status # "hung"
    /\ status = "ok" =>
        /\ Occupied(maps[1]) # DOMAIN maps[1].entries
        /\ \A key \in Keys \cup DOMAIN maps[1].entries :
            find_slot(maps[1], key) \in DOMAIN maps[1].entries

\* C6 witness: the lookup of an absent key has to probe past its Occupied
\* home slot, in a table that holds a displaced entry
C6_Witness ==
    /\ maps[1].m_size >= 2
    /\ Displaced(maps[1])
    /\ \E key \in Keys :
        /\ find(maps[1], key) = Null
        /\ maps[1].entries[MaskIndex(hash_fn(key), maps[1].capacity)].state = 1

\* C7: capacity changes only in a call that inserts a new key: neither find
\* nor operator[] on a key that is already stored changes it.
C7_GrowthOnlyOnInsertion ==
    [][\A key \in Keys :
        (\/ Find(1, key)
         \/ /\ find(maps[1], key) >= 0
            /\ IndexOrInsert(1, key) \/ \E val \in Vals : IndexAssign(1, key, val)) =>
            maps'[1].capacity = maps[1].capacity]_vars

\* C8: an operator[] call that inserts a new key grows the table exactly when
\* (m_size + 1) / capacity > 0.75 on entry, and then capacity doubles once.
C8_GrowsIffLoadAbove ==
    [][BigInsert =>
        IF MaxLoadDen * (big_size + 1) > MaxLoadNum * big_capacity
        THEN big_capacity' = 2 * big_capacity
        ELSE big_capacity' = big_capacity]_vars

\* a live map that has been moved from
MovedFrom(mp) == mp.life = "live" /\ mp.null

\* C9: a moved-from map has size 0 and behaves as a fresh empty map: find
\* returns nullptr, operator[] inserts the key and makes it retrievable, and
\* no call reads or writes outside an array the map owns.
C9_MovedFromBehavesEmpty ==
    /\ [](\A m \in MapIds : MovedFrom(maps[m]) => size(maps[m]) = 0)
    /\ [][\A m \in MapIds, key \in MoveKeys :
            /\ (MovedFrom(maps[m]) /\ Find(m, key)) =>
                find(maps[m], key) = Null /\ status' = "ok"
            /\ (MovedFrom(maps[m]) /\ IndexOrInsert(m, key)) =>
                /\ status' = "ok"
                /\ size(maps'[m]) = 1
                /\ find(maps'[m], key) = 0]_vars

\* C10: after a move construction or move assignment dst <- src, dst has the
\* size src had, finds every key src held with the value it had, and stores
\* exactly the pairs src stored (nothing of what dst held before).
C10_MoveTransfersEntries ==
    [][\A dst \in MapIds, src \in MapIds :
        (MoveConstruct(dst, src) \/ MoveAssign(dst, src)) =>
            /\ size(maps'[dst]) = size(maps[src])
            /\ Stored(maps'[dst]) = Stored(maps[src])
            /\ \A key \in Found(maps[src], MoveKeys) :
                find(maps'[dst], key) = find(maps[src], key)]_vars

\* C10 witness: a move has brought a grown table with a displaced entry to
\* map 2 and left map 1 moved-from
C10_Witness ==
    /\ maps[2].m_size = Cardinality(MoveKeys)
    /\ maps[2].capacity > InitialSize
    /\ Displaced(maps[2])
    /\ MovedFrom(maps[1])

\* the step is an operator[] call with `key` on map m
Inserts(m, key) == IndexOrInsert(m, key) \/ \E val \in Vals : IndexAssign(m, key, val)

C14_ClearEqualsConstruct ==
    /\ [](status = "ok" =>
            \A m \in MapIds :
                maps[m].life = "live" =>
                    LET c == clear(maps[m], InitialSize)
                    IN  /\ c = Construct(InitialSize)
                        /\ size(c) = 0
                        /\ c.capacity = InitialSize
                        /\ Occupied(c) = {}
                        /\ \A key \in MoveKeys :
                            /\ find(c, key) = find(Construct(InitialSize), key)
                            /\ index_or_insert(c, key)
                                = index_or_insert(Construct(InitialSize), key))
    /\ [][\A m \in MapIds :
            Clear(m) => (maps'[m] = Construct(InitialSize) /\ status' = "ok")]_vars

\* C14 witness: one map is moved-from and the other holds a grown table with
\* every key: clear() can be called on either
C14_Witness ==
    \E m \in MapIds, n \in MapIds :
        /\ MovedFrom(maps[m])
        /\ maps[n].life = "live"
        /\ maps[n].capacity > InitialSize
        /\ Found(maps[n], MoveKeys) = MoveKeys

IsPow2(n) == \E e \in 0..BitLen(n) : n = Pow2(e)

\* C16 (as claimed): the capacity of every live map is a power of two and at
\* least InitialSize, after construction, operator[], growth, clear and moves.
C16_CapacityPowerOfTwo ==
    \A m \in MapIds :
        (status = "ok" /\ maps[m].life = "live") =>
            (IsPow2(maps[m].capacity) /\ maps[m].capacity >= InitialSize)

\* C16 (amended): the capacity of every live map that owns an array is a
\* power of two and at least InitialSize; a map that has been moved from
\* owns no array and has capacity 0, until clear() or a move assignment
\* gives it an array again.
C16_CapacityOfOwnedTable ==
    \A m \in MapIds :
        (status = "ok" /\ maps[m].life = "live") =>
            IF maps[m].null
            THEN maps[m].capacity = 0
            ELSE /\ IsPow2(maps[m].capacity)
                 /\ maps[m].capacity >= InitialSize
                 /\ maps[m].capacity = Cardinality(DOMAIN maps[m].entries)

\* C16 witness: map 2 has been moved from, and map 1 owns a table that has
\* grown to twice InitialSize and came to it by move assignment
C16_Witness ==
    /\ MovedFrom(maps[2])
    /\ ~maps[1].null
    /\ maps[1].capacity = 2 * InitialSize
    /\ maps[1].m_size > 0

\* C18: the tag of every slot of every table is 0 (empty) or 1 (occupied),
\* never 2 (deleted), and over every step that keeps the table (no growth,
\* no clear) a slot that is Occupied stays Occupied with the key it holds.
C18_NoRemovedTag ==
    /\ [](\A m \in MapIds : \A i \in DOMAIN maps[m].entries :
            maps[m].entries[i].state \in {0, 1})
    /\ [][(maps'[1].capacity = maps[1].capacity /\ ~Clear(1)) =>
            \A i \in Occupied(maps[1]) :
                /\ maps'[1].entries[i].state = 1
                /\ maps'[1].entries[i].first = maps[1].entries[i].first]_vars

\* C18 witness: a table that has grown twice holds every key and still has
\* Empty slots
C18_Witness ==
    /\ maps[1].capacity >= 4 * InitialSize
    /\ Cardinality(Occupied(maps[1])) = Cardinality(Keys)
    /\ \E i \in DOMAIN maps[1].entries : maps[1].entries[i].state = 0

\* C15: iterating an unchanged map from begin() to end() reads no slot outside
\* the array and yields m_size pairs, each the pair of an Occupied slot, in
\* strictly increasing slot order, every Occupied slot once and no key twice;
\* on a map with m_size 0 and on a map that has been moved from begin()
\* equals end() and operator* is not applied.
C15_IterationYieldsOccupied ==
    /\ [](status = "ok" =>
            LET it  == iterate(maps[1], begin(maps[1]), <<>>)
                out == moved_out(maps[1])
            IN  /\ it.fault = 0
                /\ Len(it.yield) = size(maps[1])
                /\ \A n \in DOMAIN it.yield :
                    /\ it.yield[n].slot \in Occupied(maps[1])
                    /\ it.yield[n].state = 1
                    /\ it.yield[n].first = maps[1].entries[it.yield[n].slot].first
                    /\ it.yield[n].second = maps[1].entries[it.yield[n].slot].second
                /\ \A a \in DOMAIN it.yield, b \in DOMAIN it.yield :
                    a < b => (/\ it.yield[a].slot < it.yield[b].slot
                              /\ it.yield[a].first # it.yield[b].first)
                /\ {it.yield[n].slot : n \in DOMAIN it.yield} = Occupied(maps[1])
                /\ size(maps[1]) = 0 =>
                    (begin(maps[1]) = end(maps[1]) /\ it.yield = <<>>)
                /\ begin(out) = end(out)
                /\ iterate(out, begin(out), <<>>) = [yield |-> <<>>, fault |-> 0])
    /\ [][Iterate(1) => (maps' = maps /\ status' = "ok")]_vars

\* C15 witness: a grown table whose Occupied slots are not contiguous, one of
\* them holding a displaced entry: the iterator has to skip between them
C15_Witness ==
    /\ maps[1].capacity > InitialSize
    /\ Displaced(maps[1])
    /\ \E i \in Occupied(maps[1]), k \in Occupied(maps[1]) :
        \E j \in DOMAIN maps[1].entries :
            i < j /\ j < k /\ maps[1].entries[j].state = 0

\* the arrays the live maps point to
Held == {address[m] : m \in {n \in MapIds : maps[n].life = "live"}} \ {0}

\* C11: over construction, operator[] with growth, clear, move construction,
\* move assignment (self-assignment included) and destruction, no array is
\* released twice or used after its release, no two maps point to the same
\* array, and the arrays in the free store are exactly those the live maps
\* point to: none is leaked and none is pointed to after its release.  A map
\* points to an array exactly when it is not moved-from.
C11_TablesOwnedAndReleasedOnce ==
    /\ status # "freed"
    /\ \A m \in MapIds, n \in MapIds :
        (m # n /\ address[m] # 0) => address[m] # address[n]
    /\ heap = Held
    /\ \A m \in MapIds :
        IF maps[m].life = "live"
        THEN (address[m] = 0) <=> maps[m].null
        ELSE address[m] = 0

\* C11 witness: map 1 grew its table, the table was moved to map 2 and map 1
\* was destroyed: the one array in the free store is the one map 2 points to
C11_Witness ==
    /\ maps[1].life = "dead"
    /\ maps[2].life = "live"
    /\ maps[2].capacity > InitialSize
    /\ maps[2].m_size > 0
    /\ address[2] # 0
    /\ heap = {address[2]}

\* the texts a map holds in Occupied slots
StoredTexts(mp) ==
    {mp.entries[i].first.text : i \in {j \in DOMAIN mp.entries : mp.entries[j].state = 1}}

\* C17: two key objects that compare equal have the same hash_fn digest and
\* resolve to the same slot, so that with std::string keys find gives the
\* same result for equal keys, a text is stored in one slot only, and m_size
\* is the number of different texts assigned (after m["a"] = 1; m["b"] = 2:
\* find("a") is 1, find("c") is nullptr and size() is 2).
C17_EqualKeysSameSlot ==
    /\ \A a \in CallerKeys, b \in CallerKeys :
        KeyEqual(a, b) =>
            /\ text_hash_fn(a) = text_hash_fn(b)
            /\ text_find_slot(text_map, a) = text_find_slot(text_map, b)
            /\ text_find(text_map, a) = text_find(text_map, b)
    /\ \A key \in CallerKeys :
        key.text \in StoredTexts(text_map) <=> text_find(text_map, key) # Null
    /\ text_map.m_size = Cardinality(StoredTexts(text_map))

\* C19: at(i) returns a reference to an element of the vector, for every
\* vector (one without storage included) and every index i: the index it
\* accesses is below size().
C19_AtStaysInLiveElements ==
    status = "ok" =>
        \A i \in Indices :
            /\ vector_at(vec, i).fault = 0
            /\ vector_at(vec, i).index < vector_size(vec)

\* what push_back(x) leaves, when x is the value of its argument on entry
Appended(x) ==
    /\ status' = "ok"
    /\ vector_size(vec') = vector_size(vec) + 1
    /\ vec'.elements[Slot(vector_size(vec))] = x
    /\ \A i \in 0..(vector_size(vec) - 1) : vec'.elements[Slot(i)] = vec.elements[Slot(i)]
    /\ vector_capacity(vec') = IF vector_capacity(vec) = 0 THEN FirstReserve
                               ELSE IF vector_size(vec) = vector_capacity(vec)
                               THEN 2 * vector_capacity(vec)
                               ELSE vector_capacity(vec)

\* C20: push_back appends its argument: size() goes up by one, the new last
\* element equals the argument, the earlier elements stay in place, also when
\* the call reallocates; capacity becomes 8 from 0, doubles when the vector is
\* full and stays otherwise; and size() <= capacity() in every state.
C20_PushBackAppends ==
    /\ [](vector_size(vec) <= vector_capacity(vec))
    /\ [][\A x \in Elems : PushBack(x) => Appended(x)]_vars
    /\ [][\A j \in Indices :
            PushBackElement(j) => Appended(vec.elements[Slot(j)])]_vars

\* C23: in every table, for every Occupied entry, find_slot of the entry's
\* key returns the entry's slot, and every slot it examines on the way is
\* Occupied and holds another key: it never stops early at an Empty slot.
C23_ProbePathOccupied ==
    status = "ok" =>
        \A s \in Occupied(maps[1]) :
            LET k    == maps[1].entries[s].first
                path == find_slot_path(maps[1], k)
            IN  /\ find_slot(maps[1], k) = s
                /\ Len(path) >= 1
                /\ path[Len(path)] = s
                /\ \A n \in 1..(Len(path) - 1) :
                    /\ maps[1].entries[path[n]].state = 1
                    /\ maps[1].entries[path[n]].first # k

\* C23 witness: a table that has grown holds an entry that find_slot reaches
\* only after it has examined the slot of another entry
C23_Witness ==
    /\ status = "ok"
    /\ maps[1].capacity > InitialSize
    /\ \E s \in Occupied(maps[1]) :
        \E t \in Range(find_slot_path(maps[1], maps[1].entries[s].first)) :
            /\ t # s
            /\ maps[1].entries[t].state = 1
            /\ find_slot(maps[1], maps[1].entries[s].first) = s

\* C24: between calls, size() of every live map is the number of its slots
\* tagged Occupied and empty() is true exactly when there is none: after
\* construction, operator[], growth, clear, and for the source and the
\* destination of a move construction or move assignment.
C24_SizeCountsOccupied ==
    status = "ok" =>
        \A m \in MapIds :
            maps[m].life = "live" =>
                /\ size(maps[m]) = Cardinality(Occupied(maps[m]))
                /\ empty(maps[m]) <=> Occupied(maps[m]) = {}
                /\ ~maps[m].null =>
                    /\ LET g == grow(maps[m])
                       IN  g.fault = 0 =>
                            size(g.map) = Cardinality(Occupied(g.map))
                    /\ \A key \in MoveKeys :
                        LET c == index_or_insert(maps[m], key)
                        IN  c.fault = 0 =>
                                size(c.map) = Cardinality(Occupied(c.map))

\* C24 witness: one map has been moved from and is empty, the other holds
\* the entries that survived a growth
C24_Witness ==
    /\ status = "ok"
    /\ \E m \in MapIds, n \in MapIds :
        /\ MovedFrom(maps[m])
        /\ empty(maps[m])
        /\ maps[n].life = "live"
        /\ ~empty(maps[n])
        /\ maps[n].capacity > InitialSize
        /\ size(maps[n]) = Cardinality(Occupied(maps[n]))

\* a 32-bit value is a power of two
IsPow2_32(w) == (w.hi = 0 /\ IsPow2(w.lo)) \/ (w.lo = 0 /\ IsPow2(w.hi))

\* C22: every growth event, whatever value the 32-bit capacity field holds,
\* yields a capacity that is twice the previous one (and not just twice it
\* modulo 2^32), strictly larger and a power of two: doubling never wraps
\* capacity to 0 or to a smaller value.
C22_DoublingNeverWraps ==
    [][(WideInsert /\ LoadExceeded32(wide.m_size, wide.capacity)) =>
        /\ wide'.capacity = Mul2_32(wide.capacity)
        /\ ~IsZero32(wide'.capacity)
        /\ Less32(wide.capacity, wide'.capacity)
        /\ IsPow2_32(wide'.capacity)]_vars

\* C21: in every growth event, the load-factor test is false in each
\* operator[] call of grow's re-insertion loop: grow() is started once, and
\* it returns with capacity doubled and m_size as it was before the growth.
C21_NoNestedGrow ==
    [][(WideInsert /\ LoadExceeded32(wide.m_size, wide.capacity)) =>
        LET g == wide_grow(wide)
        IN  /\ g.grows = 1
            /\ g.fault = 0
            /\ g.capacity = Mul2_32(wide.capacity)
            /\ g.m_size = wide.m_size
            /\ wide'.m_size = wide.m_size + 1]_vars

====
